---- MODULE Spec2Model ----
(***************************************************************************)
(* The concurrent core of the MDM pipeline: the bounded fan-out of         *)
(* process() (files/app.py) over a batch, and the cached, coalescing       *)
(* postal-code lookup enrich_address_with_zipcode                          *)
(* (services/zipcode_service.py) with its provider chain.                  *)
(*                                                                         *)
(* Scheduling is asyncio's: one task runs at a time and gives up control   *)
(* only at an await that really suspends.  Every action below is the code  *)
(* a task runs from one suspension point to the next.                      *)
(***************************************************************************)
EXTENDS Integers, Sequences, FiniteSets, TLC

\* ------------------------------------------------------------------ bounds
\* Records submitted to the process, over the payloads of all its requests.
MaxRecords == 2

\* Records of one payload that share a postal code and a country.
SharedRecords == 3

\* ------------------------------------------------------- program constants
\* retries = 3 in _zipcodebase_lookup.
Retries == 3
\* range(1,4) in normalize_customer and parse_address.
LlmAttempts == 3
\* len(cep_digits) < 5 is rejected.
MinDigits == 5
\* len(cep_digits) == 8 is formatted DDDDD-DDD.
BrDigits == 8

\* The requests (calls of process) the process serves; a task is <<request,
\* position of its record in the payload>>.
Batches == {1, 2}
MaxPayload == IF MaxRecords > SharedRecords THEN MaxRecords ELSE SharedRecords
Tasks == Batches \X (1..MaxPayload)
NoTask == <<0, 0>>

\* ------------------------------------------------------------------ inputs
Digits == {"0", "1", "2", "3", "4", "5", "6", "7", "8", "9"}
CepFormatted == <<"0", "1", "3", "1", "0", "-", "1", "0", "0">>
CepPlain == <<"0", "1", "3", "1", "0", "1", "0", "0">>
CepFive == <<"9", "0", "2", "1", "0">>
CepShort == <<"1", "2", "-", "3", "4">>
CepNone == <<>>

\* The InputRecord fields the core reads: cep and country_code ("" is None).
Inputs ==
    { [cep |-> CepFormatted, country_code |-> ""],
      [cep |-> CepPlain,     country_code |-> "us"],
      [cep |-> CepFive,      country_code |-> "US"],
      [cep |-> CepShort,     country_code |-> "br"] }

\* --------------------------------------------------------- pure functions
IsDigit(c) == c \in Digits

\* _norm_cep: "" for a missing cep, else the digits of cep in order.
_norm_cep(cep) == IF cep = <<>> THEN <<>> ELSE SelectSeq(cep, IsDigit)

\* str.upper() on the country codes of the inputs.
Upper(s) ==
    CASE s = "br" -> "BR"
      [] s = "us" -> "US"
      [] OTHER -> s

\* (record.get("country_code") or "BR").upper()
CountryOf(r) == Upper(IF r.country_code = "" THEN "BR" ELSE r.country_code)
DigitsOf(r) == _norm_cep(r.cep)

\* A test that also rejects five digits.
UnresolvableUpToFive(d) == d = <<>> \/ Len(d) <= MinDigits

\* not cep_digits or len(cep_digits) < 5
Unresolvable(d) == d = <<>> \/ Len(d) < MinDigits

Keys == {DigitsOf(r) : r \in {x \in Inputs : ~Unresolvable(DigitsOf(x))}}

\* f"{d[:5]}-{d[5:]}"
Hyphenate(d) == SubSeq(d, 1, 5) \o <<"-">> \o SubSeq(d, 6, Len(d))

\* A LookupResult.  found = FALSE is the empty dict {}.
Empty == [found |-> FALSE, postal_code |-> <<>>, country_code |-> "", provider |-> ""]

\* The dict _zipcodebase_lookup builds from a non-empty results list.
ZipcodebaseResult(d, country) ==
    [found |-> TRUE,
     postal_code |-> IF Len(d) = BrDigits THEN Hyphenate(d) ELSE d,
     country_code |-> Upper(country),
     provider |-> "zipcodebase"]

\* The dict _via_cep builds from a 200 response without "erro".
ViaCepResult(d) ==
    [found |-> TRUE,
     postal_code |-> IF Len(d) = BrDigits THEN Hyphenate(d) ELSE <<>>,
     country_code |-> "BR",
     provider |-> "viacep"]

\* Python truthiness of a result dict.
Truthy(p) == p.found

\* ------------------------------------------------------------------- state
VARIABLES
    cfg,       \* process configuration read from the environment
    cache,     \* _ZIP_CACHE: key -> result, NoEntry when absent
    inflight,  \* _INFLIGHT: key -> the task that created the future, NoTask when absent
    fut,       \* the future each initiator created: state, value, and (history)
               \* what its provider chain produced
    zsem,      \* free permits of _SEM
    batch,     \* per request: phase, semaphores, issues, gathered results
    task,      \* per record task: position and locals
    log        \* (history) the GETs and backoff sleeps of an observed retry loop

vars == <<cfg, cache, inflight, fut, zsem, batch, task, log>>

NoEntry == [found |-> FALSE, postal_code |-> <<>>, country_code |-> "", provider |-> "absent"]

\* ----------------------------------------------------------- configuration
\* settings.CONCURRENCY_NORMALIZE, settings.CONCURRENCY_ADDRESS and
\* ZIPCODEBASE_MAX_CONCURRENCY as configured for the checked deployment.
ConcurrencyNormalize == 1
ConcurrencyAddress == 1
ZipMaxConcurrency == 1

\* api_key: ZIPCODEBASE_KEY is set.  delay_ok: ZIPCODEBASE_BASE_DELAY parses as
\* a float (float() raises ValueError otherwise, before the first attempt; the
\* variable is read only when the key is set).
Configs ==
    { c \in [api_key : BOOLEAN, delay_ok : BOOLEAN,
             conc_n : {ConcurrencyNormalize}, conc_a : {ConcurrencyAddress},
             zip_conc : {ZipMaxConcurrency}] :
        c.api_key \/ c.delay_ok }

\* ----------------------------------------------------------------- results
\* What _n / _a put in their slot of the gathered list.  src is the index of
\* the input record the value was computed from; kind "empty" is {}.
Unset == [kind |-> "unset", src |-> 0, id |-> 0, has_addr |-> FALSE, addr |-> "none"]
EmptyDict(i) == [kind |-> "empty", src |-> i, id |-> 0, has_addr |-> FALSE, addr |-> "none"]

\* InputRecord.id of record i of a payload; 0 is None.
IdOf(i) == i

\* The dict the normalize model returned for record i; has_addr says whether
\* its "address" or "cep" is truthy.
NormDict(i, hasAddr) ==
    [kind |-> "dict", src |-> i, id |-> IdOf(i), has_addr |-> hasAddr, addr |-> "none"]

\* A collection in the order of completion: the first free slot.
CollectByCompletion(results, i, v) ==
    LET free == {j \in 1..Len(results) : results[j].kind = "unset"}
        first == CHOOSE j \in free : \A m \in free : j <= m
    IN [results EXCEPT ![first] = v]

\* asyncio.gather keeps the order of the awaitables it was given.
Collect(results, i, v) == [results EXCEPT ![i] = v]

\* An Issue; idx is the position of the record it is about.
Issue(stage, id, i) == [stage |-> stage, id |-> id, idx |-> i]

\* No record: the task is not inside normalize_customer.
NoRecord == [cep |-> <<>>, country_code |-> ""]

\* The task tk at position pc with the locals of its operation gone.
Left(tk, pc) ==
    [pc |-> pc, rec |-> NoRecord, parsed |-> Empty, attempt |-> 0, waitOn |-> NoTask,
     role |-> "none", runs_n |-> tk.runs_n, runs_a |-> tk.runs_a,
     raised_n |-> tk.raised_n, raised_a |-> tk.raised_a]

\* History: runs_n and runs_a count the calls of normalize_customer and
\* parse_address for the record; raised_n and raised_a say that the call raised.
InitTask ==
    [pc |-> "idle", rec |-> NoRecord, parsed |-> Empty,
     attempt |-> 0, waitOn |-> NoTask, role |-> "none", runs_n |-> 0, runs_a |-> 0,
     raised_n |-> FALSE, raised_a |-> FALSE]

\* n is len(payload.records); norm and out are the two gathered lists;
\* operations is payload.operations and stages the stages process() has
\* started, in the order it started them.
InitBatch ==
    [phase |-> "idle", n |-> 0, semN |-> 0, semA |-> 0, issues |-> <<>>,
     norm |-> <<>>, out |-> <<>>, operations |-> {}, stages |-> <<>>]

NoFuture == [state |-> "none", value |-> Empty, produced |-> NoEntry]

Init ==
    /\ cfg \in Configs
    /\ cache = [k \in Keys |-> NoEntry]
    /\ inflight = [k \in Keys |-> NoTask]
    /\ fut = [t \in Tasks |-> NoFuture]
    /\ zsem = cfg.zip_conc
    /\ batch = [b \in Batches |-> InitBatch]
    /\ task = [t \in Tasks |-> InitTask]
    /\ log = <<>>

\* The mutable program state as one value, so that the code a task runs
\* between two suspension points composes as functions on it.
World ==
    [cache |-> cache, inflight |-> inflight, fut |-> fut, zsem |-> zsem,
     batch |-> batch, task |-> task, log |-> log]

\* A future lives as long as _INFLIGHT or an awaiting task refers to it.
Referenced(w, f) ==
    \/ \E k \in Keys : w.inflight[k] = f
    \/ \E t \in Tasks : w.task[t].pc = "z_fut" /\ w.task[t].waitOn = f

Collected(w) ==
    [w EXCEPT !.fut = [f \in Tasks |-> IF Referenced(w, f) THEN w.fut[f] ELSE NoFuture]]

Commit(w) ==
    /\ cache' = w.cache
    /\ inflight' = w.inflight
    /\ fut' = Collected(w).fut
    /\ zsem' = w.zsem
    /\ batch' = w.batch
    /\ task' = w.task
    /\ log' = w.log
    /\ UNCHANGED cfg

\* ------------------------------------------------- the stage executor, _n
\* A loop that also retries on a 4xx.
RetriedWithClientErrors(o) ==
    o \in {"429_hint", "429_bad_hint", "429_no_hint", "4xx", "5xx", "connect_error",
           "read_timeout"}

\* A loop that retries on server and network errors only.
RetriedOnlyErrors(o) == o \in {"5xx", "connect_error", "read_timeout"}

\* An async with _SEM that keeps the permit.
ReleaseZNever(w) == w

\* An exit that releases twice.
ReleaseNTwice(w, t) == [w EXCEPT !.batch[t[1]].semN = @ + 2]

\* async with sem_n: __aexit__ releases the permit on return and on raise.
ReleaseN(w, t) == [w EXCEPT !.batch[t[1]].semN = @ + 1]

\* _n returns: the value goes to slot t[2] of gather's list.
NReturn(w, t, v) ==
    [ReleaseN(w, t) EXCEPT !.batch[t[1]].norm = Collect(@, t[2], v),
                           !.task[t] = Left(@, "n_done")]

\* _n's except Exception: one Issue, and {} as the result.
NExcept(w, t) ==
    NReturn([w EXCEPT !.batch[t[1]].issues = Append(@, Issue("normalize", IdOf(t[2]), t[2]))],
            t, EmptyDict(t[2]))

\* normalize_customer after enrich_address_with_zipcode returned: building the
\* prompt and the client either raises (fail) or reaches the first POST.
AfterEnrich(w, t, fail) ==
    IF fail THEN NExcept([w EXCEPT !.task[t].raised_n = TRUE], t)
    ELSE [w EXCEPT !.task[t].pc = "n_llm", !.task[t].attempt = 1]

\* ------------------------------------------- enrich_address_with_zipcode
\* A finally that leaves the entry in the table.
PopNothing(w, k) == w

\* finally: _INFLIGHT.pop(cep_digits, None)
PopInflight(w, k) == [w EXCEPT !.inflight[k] = NoTask]

\* async with _SEM: __aexit__ releases the permit.
ReleaseZ(w) == [w EXCEPT !.zsem = @ + 1]

\* A set_result that always delivers {}.
SetResultEmpty(w, f, v) == [w EXCEPT !.fut[f].state = "done", !.fut[f].value = Empty]

\* fut.set_result(v) on the future task f created.
SetResult(w, f, v) == [w EXCEPT !.fut[f].state = "done", !.fut[f].value = v]

\* A resolve that caches nothing.
StoreNever(w, k, parsed) == w

\* A store that does not test the result.
StoreAlways(w, k, parsed) == [w EXCEPT !.cache[k] = parsed]

\* if parsed: _ZIP_CACHE[cep_digits] = parsed
StoreInCache(w, k, parsed) ==
    IF Truthy(parsed) THEN [w EXCEPT !.cache[k] = parsed] ELSE w

\* if parsed: record["_parsed"] = parsed
Attach(w, t, parsed) ==
    IF Truthy(parsed) THEN [w EXCEPT !.task[t].parsed = parsed] ELSE w

\* except Exception inside enrich: resolve the registered future with {} if
\* it is not done; then the finally.  The permit is released on the way out.
EnrichExcept(w, t, held) ==
    LET k == DigitsOf(w.task[t].rec)
        f == w.inflight[k]
        w1 == IF held THEN ReleaseZ(w) ELSE w
        w2 == IF f # NoTask /\ w1.fut[f].state = "pending"
              THEN SetResult(w1, f, Empty) ELSE w1
    IN PopInflight(w2, k)

\* The tail of the initiator: store, resolve the future, attach, return, finally.
\* _INFLIGHT[cep_digits] raises KeyError when the entry is gone.
Finish(w, t, parsed, fail) ==
    LET k == DigitsOf(w.task[t].rec)
        w0 == [w EXCEPT !.fut[t].produced = parsed]
        w1 == StoreInCache(w0, k, parsed)
        f == w1.inflight[k]
    IN IF f = NoTask
       THEN AfterEnrich(EnrichExcept(w1, t, TRUE), t, fail)
       ELSE LET w2 == IF w1.fut[f].state = "pending" THEN SetResult(w1, f, parsed) ELSE w1
                w3 == Attach(w2, t, parsed)
            IN AfterEnrich(PopInflight(ReleaseZ(w3), k), t, fail)

\* A chain that asks the fallback for any country.
AfterPrimaryAnyCountry(w, t, parsed, fail) ==
    IF ~Truthy(parsed)
    THEN [w EXCEPT !.task[t].pc = "z_fallback"]
    ELSE Finish(w, t, parsed, fail)

\* if not parsed and country == "BR": parsed = await _via_cep(cep_digits)
AfterPrimary(w, t, parsed, fail) ==
    IF ~Truthy(parsed) /\ CountryOf(w.task[t].rec) = "BR"
    THEN [w EXCEPT !.task[t].pc = "z_fallback"]
    ELSE Finish(w, t, parsed, fail)

\* Inside async with _SEM, up to the first await that suspends.
ChainStart(w, t, fail) ==
    IF cfg.api_key
    THEN IF cfg.delay_ok
         THEN [w EXCEPT !.task[t].pc = "z_primary", !.task[t].attempt = 1]
         ELSE AfterEnrich(EnrichExcept([w EXCEPT !.fut[t].produced = Empty], t, TRUE), t, fail)
    ELSE AfterPrimary(w, t, Empty, fail)

\* An entry into the chain that takes no permit.
AcquireZNothing(w) == w

\* async with _SEM: __aenter__ takes a permit.
AcquireZ(w) == [w EXCEPT !.zsem = @ - 1]

\* A registration that creates the future and leaves it out of the table.
RegisterOutsideTable(w, t) ==
    [w EXCEPT !.fut[t] = [state |-> "pending", value |-> Empty, produced |-> NoEntry],
              !.task[t].role = "initiator"]

\* _INFLIGHT[cep_digits] = loop.create_future()
Register(w, t) ==
    LET k == DigitsOf(w.task[t].rec)
    IN [w EXCEPT !.inflight[k] = t,
                 !.fut[t] = [state |-> "pending", value |-> Empty, produced |-> NoEntry],
                 !.task[t].role = "initiator"]

\* A cache test that always misses.
CacheMiss(w, d) == FALSE

\* if cep_digits in _ZIP_CACHE
CacheHit(w, d) == w.cache[d] # NoEntry

\* enrich_address_with_zipcode from its first line to its first suspension.
Enrich(w, t, fail) ==
    LET r == w.task[t].rec
        d == DigitsOf(r)
    IN IF Unresolvable(d)
       THEN AfterEnrich([w EXCEPT !.task[t].role = "skip"], t, fail)
       ELSE IF CacheHit(w, d)
       THEN AfterEnrich([w EXCEPT !.task[t].parsed = w.cache[d],
                                  !.task[t].role = "hit"], t, fail)
       ELSE IF w.inflight[d] # NoTask
       THEN [w EXCEPT !.task[t].pc = "z_fut",
                      !.task[t].waitOn = w.inflight[d],
                      !.task[t].role = "waiter"]
       ELSE LET w1 == Register(w, t)
            IN IF w1.zsem > 0
               THEN ChainStart(AcquireZ(w1), t, fail)
               ELSE [w1 EXCEPT !.task[t].pc = "z_sem"]

\* ------------------------------------------------------ external responses
\* What one GET of _zipcodebase_lookup can end in.
PrimaryOutcomes ==
    {"found", "not_found", "429_hint", "429_bad_hint", "429_no_hint", "4xx", "5xx",
     "connect_error", "read_timeout", "other_timeout", "unexpected"}

\* The branches of the retry loop that sleep and go round again.
Retried(o) ==
    o \in {"429_hint", "429_bad_hint", "429_no_hint", "5xx", "connect_error", "read_timeout"}

\* What the GET of _via_cep can end in.
FallbackOutcomes == {"found", "erro", "non_200", "error"}

\* What one POST to the model can end in: a JSON dict (with or without an
\* address or cep), JSON that is no dict, or an exception.
LlmOutcomes == {"dict_addr", "dict_no_addr", "non_dict", "fail"}

\* ------------------------------------------------------------------ actions
\* The request of task t has not been cancelled: a task whose cancel() was
\* called runs nothing but its unwinding.
Live(t) == batch[t[1]].phase # "cancelled"

\* payload.operations, as the set of its items: what the requests of Spec
\* ask for, and what the requests of PipelineSpec can ask for.
Requested == {"normalize", "dedupe", "enrich"}
OperationLists ==
    {{"normalize"}, {"dedupe", "harmonize"}, {"consolidate", "enrich"}}

\* A process() that harmonizes twice.
ComputedTwice(ops) == <<"dedupe_candidates", "harmonize", "harmonize">>

\* The stages process() calls after the second gather, in order:
\* dedupe_candidates and harmonize always, pick_golden for "consolidate" or
\* "dedupe", enrich for "enrich".
Computed(ops) ==
    <<"dedupe_candidates">>
    \o (IF "consolidate" \in ops \/ "dedupe" \in ops THEN <<"pick_golden">> ELSE <<>>)
    \o <<"harmonize">>
    \o (IF "enrich" \in ops THEN <<"enrich">> ELSE <<>>)

\* The tasks of request b: one per record of its payload.
TasksOf(b) == {t \in Tasks : t[1] = b /\ t[2] <= batch[b].n}

\* Records submitted so far.
Submitted == batch[1].n + batch[2].n

\* process() up to the first gather: sem_n is created and one _n task per
\* record is scheduled.
Start(b, ops) ==
    /\ batch[b].phase = "idle"
    /\ \A c \in Batches : c < b => batch[c].phase # "idle"
    /\ \E n \in 1..(MaxRecords - Submitted) :
          /\ batch' = [batch EXCEPT ![b] = [@ EXCEPT !.phase = "normalize", !.n = n,
                                                     !.operations = ops,
                                                     !.stages = <<"normalize">>,
                                                     !.semN = cfg.conc_n,
                                                     !.norm = [i \in 1..n |-> Unset],
                                                     !.out = [i \in 1..n |-> Unset]]]
          /\ task' = [t \in Tasks |->
                        IF t[1] = b /\ t[2] <= n THEN [task[t] EXCEPT !.pc = "n_wait"]
                        ELSE task[t]]
    /\ UNCHANGED <<cfg, cache, inflight, fut, zsem, log>>

StartBatch(b) == Start(b, Requested)

\* _n acquires sem_n and runs normalize_customer on r.model_dump() to its
\* first suspension.  The record of the payload is read here, not before.
NEnter(t) ==
    /\ task[t].pc = "n_wait"
    /\ Live(t)
    /\ batch[t[1]].semN > 0
    /\ \E r \in Inputs, fail \in BOOLEAN :
          Commit(Enrich([World EXCEPT !.batch[t[1]].semN = @ - 1,
                                      !.task[t].rec = r,
                                      !.task[t].runs_n = @ + 1], t, fail))

\* await fut raised CancelledError in a task nobody cancelled: it is no
\* Exception, so it passes every handler; sem_n is released on the way out,
\* and gather raises it in process() while the other tasks run on.
Raised(w, t) ==
    [ReleaseN(w, t) EXCEPT !.task[t] = Left(@, "cancelled"),
                           !.batch[t[1]].phase = "failed"]

\* The coalesced caller after await fut: with the future's value, or with
\* CancelledError when the future was cancelled.
AfterFuture(w, t, fail) ==
    LET f == w.task[t].waitOn
        parsed == w.fut[f].value
        k == DigitsOf(w.task[t].rec)
        w1 == [w EXCEPT !.task[t].waitOn = NoTask]
    IN IF w.fut[f].state = "cancelled"
       THEN Raised(w1, t)
       ELSE AfterEnrich(Attach(StoreInCache(w1, k, parsed), t, parsed), t, fail)

\* A coalesced caller resumes from await fut.
FutResume(t) ==
    /\ task[t].pc = "z_fut"
    /\ Live(t)
    /\ fut[task[t].waitOn].state \in {"done", "cancelled"}
    /\ \E fail \in BOOLEAN : Commit(AfterFuture(World, t, fail))

\* The initiator gets a permit of _SEM it had to wait for.
ZSemAcquire(t) ==
    /\ task[t].pc = "z_sem"
    /\ Live(t)
    /\ zsem > 0
    /\ \E fail \in BOOLEAN : Commit(ChainStart(AcquireZ(World), t, fail))

\* The retry loop after one GET ended in o: sleep and go round again, or
\* return the result dict, or return {}.
AfterGet(w, t, o, fail) ==
    LET r == w.task[t].rec
    IN IF Retried(o)
       THEN [w EXCEPT !.task[t].pc = "z_sleep"]
       ELSE IF o = "found"
       THEN AfterPrimary(w, t, ZipcodebaseResult(DigitsOf(r), CountryOf(r)), fail)
       ELSE AfterPrimary(w, t, Empty, fail)

\* The retry loop after asyncio.sleep(wait_s): the next attempt, or the loop
\* is over and the lookup returns {}.
AfterSleep(w, t, fail) ==
    IF w.task[t].attempt < Retries
    THEN [w EXCEPT !.task[t].pc = "z_primary", !.task[t].attempt = @ + 1]
    ELSE AfterPrimary(w, t, Empty, fail)

\* One GET of the retry loop ends.
PrimaryResponse(t, o) ==
    /\ task[t].pc = "z_primary"
    /\ Live(t)
    /\ \E fail \in BOOLEAN : Commit(AfterGet(World, t, o, fail))

\* asyncio.sleep(wait_s) ends.
SleepDone(t) ==
    /\ task[t].pc = "z_sleep"
    /\ Live(t)
    /\ \E fail \in BOOLEAN : Commit(AfterSleep(World, t, fail))

\* The GET of _via_cep ends.
FallbackResponse(t) ==
    /\ task[t].pc = "z_fallback"
    /\ Live(t)
    /\ \E o \in FallbackOutcomes, fail \in BOOLEAN :
          Commit(Finish(World, t,
                        IF o = "found" THEN ViaCepResult(DigitsOf(task[t].rec)) ELSE Empty,
                        fail))

\* One POST of normalize_customer ends.
NormalizeResponse(t) ==
    /\ task[t].pc = "n_llm"
    /\ Live(t)
    /\ \E o \in LlmOutcomes :
          CASE o \in {"dict_addr", "dict_no_addr"} ->
                 Commit(NReturn(World, t, NormDict(t[2], o = "dict_addr")))
            [] o = "non_dict" -> Commit(NReturn(World, t, EmptyDict(t[2])))
            [] OTHER ->
                 IF task[t].attempt < LlmAttempts
                 THEN Commit([World EXCEPT !.task[t] = [Left(@, "n_llm") EXCEPT
                                                           !.attempt = task[t].attempt + 1]])
                 ELSE Commit(NReturn(World, t, EmptyDict(t[2])))

\* ------------------------------------------------- the stage executor, _a
\* _a returns: the value goes to slot t[2] of the second gather's list.
AReturn(w, t, v) ==
    [w EXCEPT !.batch[t[1]].out = Collect(@, t[2], v), !.task[t] = Left(@, "a_done")]

ReleaseA(w, t) == [w EXCEPT !.batch[t[1]].semA = @ + 1]

\* _a's except Exception: one Issue with r.get('id'), and r as the result.
AExcept(w, t, r) ==
    AReturn([w EXCEPT !.batch[t[1]].issues = Append(@, Issue("address", r.id, t[2]))], t, r)

\* The first gather returned: sem_a is created and one _a task per
\* normalized record is scheduled.
StartAddress(b) ==
    /\ batch[b].phase = "normalize"
    /\ \A t \in TasksOf(b) : task[t].pc = "n_done"
    /\ batch' = [batch EXCEPT ![b].phase = "address", ![b].semA = cfg.conc_a,
                              ![b].stages = Append(@, "address")]
    /\ task' = [t \in Tasks |->
                  IF t \in TasksOf(b) THEN [task[t] EXCEPT !.pc = "a_wait"]
                  ELSE task[t]]
    /\ UNCHANGED <<cfg, cache, inflight, fut, zsem, log>>

\* _a: a record with an address or a cep takes a permit of sem_a and runs
\* parse_address to its first POST; any other record is returned as it is.
AEnter(t) ==
    /\ task[t].pc = "a_wait"
    /\ Live(t)
    /\ LET r == batch[t[1]].norm[t[2]]
       IN IF r.has_addr
          THEN /\ batch[t[1]].semA > 0
               /\ \E fail \in BOOLEAN :
                     LET w == [World EXCEPT !.batch[t[1]].semA = @ - 1,
                                            !.task[t].runs_a = @ + 1]
                     IN IF fail
                        THEN Commit(AExcept(ReleaseA([w EXCEPT !.task[t].raised_a = TRUE], t),
                                            t, r))
                        ELSE Commit([w EXCEPT !.task[t].pc = "a_llm", !.task[t].attempt = 1])
          ELSE Commit(AReturn(World, t, r))

\* One POST of parse_address ends.
AddressResponse(t) ==
    /\ task[t].pc = "a_llm"
    /\ Live(t)
    /\ \E o \in LlmOutcomes :
          LET r == batch[t[1]].norm[t[2]]
          IN CASE o \in {"dict_addr", "dict_no_addr"} ->
                    Commit(AReturn(ReleaseA(World, t), t, [r EXCEPT !.addr = "out"]))
               [] o = "non_dict" ->
                    Commit(AReturn(ReleaseA(World, t), t, [r EXCEPT !.addr = "default"]))
               [] OTHER ->
                    IF task[t].attempt < LlmAttempts
                    THEN Commit([World EXCEPT !.task[t].attempt = @ + 1])
                    ELSE Commit(AReturn(ReleaseA(World, t), t, [r EXCEPT !.addr = "default"]))

\* The second gather returned: the rest of process() runs without suspending.
FinishBatch(b) ==
    /\ batch[b].phase = "address"
    /\ \A t \in TasksOf(b) : task[t].pc = "a_done"
    /\ batch' = [batch EXCEPT ![b].phase = "done",
                              ![b].stages = @ \o Computed(batch[b].operations)]
    /\ UNCHANGED <<cfg, cache, inflight, fut, zsem, task, log>>

Running ==
    \/ \E b \in Batches : StartAddress(b) \/ FinishBatch(b)
    \/ \E t \in Tasks :
          \/ NEnter(t)
          \/ FutResume(t)
          \/ ZSemAcquire(t)
          \/ \E o \in PrimaryOutcomes : PrimaryResponse(t, o)
          \/ SleepDone(t)
          \/ FallbackResponse(t)
          \/ NormalizeResponse(t)
          \/ AEnter(t)
          \/ AddressResponse(t)

Next == (\E b \in Batches : StartBatch(b)) \/ Running

Spec == Init /\ [][Next]_vars

\* The same process when its requests differ in their operations.
PipelineNext == (\E b \in Batches, ops \in OperationLists : Start(b, ops)) \/ Running

PipelineSpec == Init /\ [][PipelineNext]_vars

\* ---------------------------------------------------------------- fairness
\* The steps of task t.
Step(t) ==
    \/ NEnter(t)
    \/ FutResume(t)
    \/ ZSemAcquire(t)
    \/ \E o \in PrimaryOutcomes : PrimaryResponse(t, o)
    \/ SleepDone(t)
    \/ FallbackResponse(t)
    \/ NormalizeResponse(t)
    \/ AEnter(t)
    \/ AddressResponse(t)

\* process() resumes from a gather whose awaitables are all done.
Gathered(b) == StartAddress(b) \/ FinishBatch(b)

\* Every step but the arrival of a new request.
Progress == (\E t \in Tasks : Step(t)) \/ (\E b \in Batches : Gathered(b))

\* The event loop runs every task that is ready, every external call returns
\* or fails (the clients have timeouts), every sleep ends.
FairSpec ==
    /\ Spec
    /\ \A t \in Tasks : WF_vars(Step(t))
    /\ \A b \in Batches : WF_vars(Gathered(b))

\* ------------------------------------------------- one observed retry loop
\* The task whose Provider Chain invocation is observed.
Observed == <<1, 1>>

\* The process when the observed task, as initiator and with a permit of _SEM,
\* is about to send the first GET of _zipcodebase_lookup.
ChainInit ==
    /\ cfg \in {c \in Configs : c.api_key /\ c.delay_ok}
    /\ \E r \in {x \in Inputs : ~Unresolvable(DigitsOf(x))} :
          /\ inflight = [k \in Keys |-> IF k = DigitsOf(r) THEN Observed ELSE NoTask]
          /\ task = [t \in Tasks |->
                       IF t = Observed
                       THEN [InitTask EXCEPT !.pc = "z_primary", !.rec = r, !.attempt = 1,
                                             !.role = "initiator", !.runs_n = 1]
                       ELSE InitTask]
    /\ cache = [k \in Keys |-> NoEntry]
    /\ fut = [t \in Tasks |->
                IF t = Observed
                THEN [state |-> "pending", value |-> Empty, produced |-> NoEntry]
                ELSE NoFuture]
    /\ zsem = cfg.zip_conc - 1
    /\ batch = [b \in Batches |->
                  IF b = Observed[1]
                  THEN [InitBatch EXCEPT !.phase = "normalize", !.n = 1,
                                         !.semN = cfg.conc_n - 1,
                                         !.norm = <<Unset>>, !.out = <<Unset>>]
                  ELSE InitBatch]
    /\ log = <<>>

\* The GET of attempt n as the loop sends it: codes and country are its params.
Sent(t, o) ==
    [kind |-> "get", attempt |-> task[t].attempt, outcome |-> o,
     codes |-> DigitsOf(task[t].rec), country |-> CountryOf(task[t].rec)]

\* The backoff sleep after attempt n.
Waited(t) ==
    [kind |-> "slept", attempt |-> task[t].attempt, outcome |-> "none",
     codes |-> DigitsOf(task[t].rec), country |-> CountryOf(task[t].rec)]

\* One GET of the observed loop ends in o.  The prompt of the observed record
\* is built without an error.
ObservedGet(o) ==
    /\ task[Observed].pc = "z_primary"
    /\ Commit([AfterGet(World, Observed, o, FALSE) EXCEPT
                  !.log = Append(@, Sent(Observed, o))])

\* One backoff sleep of the observed loop ends.
ObservedSleep ==
    /\ task[Observed].pc = "z_sleep"
    /\ Commit([AfterSleep(World, Observed, FALSE) EXCEPT
                  !.log = Append(@, Waited(Observed))])

ChainNext == (\E o \in PrimaryOutcomes : ObservedGet(o)) \/ ObservedSleep

\* One Provider Chain invocation up to the end of its primary lookup.
ChainSpec == ChainInit /\ [][ChainNext]_vars

\* --------------------------------------------------- one observed resolve
\* The records a resolve is observed on: the inputs, and a record with no cep.
ResolveInputs == Inputs \cup {[cep |-> CepNone, country_code |-> ""]}

\* What earlier requests can have left in the cache for key k.
PriorEntries(k) == {NoEntry, ZipcodebaseResult(k, "US"), ViaCepResult(k)}

\* The process when process() has scheduled the observed task for a payload
\* of one record; earlier requests are over and have filled the cache.
ResolveInit ==
    /\ cfg \in Configs
    /\ cache \in {c \in [Keys -> UNION {PriorEntries(k) : k \in Keys}] :
                     \A k \in Keys : c[k] \in PriorEntries(k)}
    /\ inflight = [k \in Keys |-> NoTask]
    /\ fut = [t \in Tasks |-> NoFuture]
    /\ zsem = cfg.zip_conc
    /\ batch = [b \in Batches |->
                  IF b = Observed[1]
                  THEN [InitBatch EXCEPT !.phase = "normalize", !.n = 1,
                                         !.semN = cfg.conc_n,
                                         !.norm = <<Unset>>, !.out = <<Unset>>]
                  ELSE InitBatch]
    /\ task = [t \in Tasks |-> IF t = Observed THEN [InitTask EXCEPT !.pc = "n_wait"]
                                ELSE InitTask]
    /\ log = <<>>

\* enrich_address_with_zipcode is called with record r while the cache is c.
Called(r, c) ==
    [kind |-> "call", attempt |-> 0, outcome |-> "none",
     codes |-> DigitsOf(r), country |-> CountryOf(r), rec |-> r, before |-> c]

\* The GET of _via_cep ended in o.
Answered(t, o) ==
    [kind |-> "fallback", attempt |-> 0, outcome |-> o,
     codes |-> DigitsOf(task[t].rec), country |-> CountryOf(task[t].rec)]

\* The observed task takes its permit of sem_n and calls normalize_customer,
\* which calls enrich_address_with_zipcode.
ObservedCall ==
    /\ task[Observed].pc = "n_wait"
    /\ batch[Observed[1]].semN > 0
    /\ \E r \in ResolveInputs :
          Commit([Enrich([World EXCEPT !.batch[Observed[1]].semN = @ - 1,
                                       !.task[Observed].rec = r,
                                       !.task[Observed].runs_n = @ + 1], Observed, FALSE)
                    EXCEPT !.log = Append(@, Called(r, cache))])

\* The GET of _via_cep of the observed resolve ends in o.
ObservedFallback(o) ==
    /\ task[Observed].pc = "z_fallback"
    /\ Commit([Finish(World, Observed,
                      IF o = "found" THEN ViaCepResult(DigitsOf(task[Observed].rec))
                      ELSE Empty,
                      FALSE)
                 EXCEPT !.log = Append(@, Answered(Observed, o))])

ResolveNext ==
    \/ ObservedCall
    \/ ChainNext
    \/ \E o \in FallbackOutcomes : ObservedFallback(o)

\* One call of enrich_address_with_zipcode from its first line to its return.
ResolveSpec == ResolveInit /\ [][ResolveNext]_vars

\* ------------------------------------------------------------- vocabulary
KeyOf(t) == DigitsOf(task[t].rec)

\* The task is inside a Provider Chain invocation (it holds a permit).
InChain(t) == task[t].pc \in {"z_primary", "z_sleep", "z_fallback"}

\* The task is the initiator for its key and has not finished resolving.
Initiating(t) == task[t].pc = "z_sem" \/ InChain(t)

Initiators(k) == {t \in Tasks : Initiating(t) /\ KeyOf(t) = k}

\* Coalesced callers of key k whose PendingRequest is not resolved yet.
PendingWaiters(k) ==
    {t \in Tasks : task[t].pc = "z_fut" /\ KeyOf(t) = k
                   /\ fut[task[t].waitOn].state = "pending"}

\* The task has come back from enrich_address_with_zipcode and its record is
\* still at hand.
Returned(t) == task[t].pc = "n_llm" /\ task[t].role # "none"

\* ------------------------------------------------------------ cancellation
\* The positions at which a task is suspended or not yet started.
Suspended ==
    {"n_wait", "z_fut", "z_sem", "z_primary", "z_sleep", "z_fallback", "n_llm",
     "a_wait", "a_llm"}

\* The task running process() for request b is cancelled while it awaits a
\* gather (the server cancels the request's task): gather's cancel() calls
\* cancel() on every child, and cancel() on a task suspended in await fut
\* cancels that future at once.
Cancel(b) ==
    /\ batch[b].phase \in {"normalize", "address"}
    /\ LET awaited == {task[t].waitOn : t \in {x \in TasksOf(b) : task[x].pc = "z_fut"}}
       IN fut' = [f \in Tasks |->
                    IF f \in awaited /\ fut[f].state = "pending"
                    THEN [fut[f] EXCEPT !.state = "cancelled"]
                    ELSE fut[f]]
    /\ batch' = [batch EXCEPT ![b].phase = "cancelled"]
    /\ UNCHANGED <<cfg, cache, inflight, zsem, task, log>>

\* A cancelled task resumes with CancelledError at its await.  No except
\* Exception catches it: the async with blocks release their permits and the
\* finally of enrich_address_with_zipcode pops the table entry; the future the
\* task registered is left as it is.
Unwind(t) ==
    /\ batch[t[1]].phase = "cancelled"
    /\ task[t].pc \in Suspended
    /\ LET pc == task[t].pc
           k == DigitsOf(task[t].rec)
           w1 == IF InChain(t) THEN ReleaseZ(World) ELSE World
           w2 == IF Initiating(t) THEN PopInflight(w1, k) ELSE w1
           w3 == IF pc \in {"n_wait", "a_wait"} THEN w2
                 ELSE IF pc = "a_llm" THEN ReleaseA(w2, t)
                 ELSE ReleaseN(w2, t)
       IN Commit([w3 EXCEPT !.task[t] = Left(@, "cancelled")])

NextCancel ==
    \/ Next
    \/ \E b \in Batches : Cancel(b)
    \/ \E t \in Tasks : Unwind(t)

\* The process with requests that can be cancelled.
SpecCancel == Init /\ [][NextCancel]_vars

\* ------------------------------------------------------------------ claims
\* C1: single-flight.  For every key at most one task is the initiator (waiting
\* for its permit or inside the Provider Chain), the table names that task,
\* and every caller still waiting for the key waits on that one initiator: K
\* concurrent callers start exactly one invocation.
C1_SingleFlight ==
    \A k \in Keys :
        /\ Cardinality(Initiators(k)) <= 1
        /\ \A i \in Initiators(k) : inflight[k] = i
        /\ PendingWaiters(k) # {} =>
              \E i \in Initiators(k) : \A w \in PendingWaiters(k) : task[w].waitOn = i

\* Two callers of one key, one in the chain and one coalesced on it.
C1_Witness ==
    \E k \in Keys : \E i \in Initiators(k) : InChain(i) /\ PendingWaiters(k) # {}

\* C2: a coalesced caller leaves await fut only when the future is resolved,
\* that is after the initiator's chain produced its outcome, and the value it
\* comes back with is that outcome (the same result, or empty).
C2_CoalescedOutcome ==
    [][\A t \in Tasks :
          (task[t].pc = "z_fut" /\ task'[t].pc # "z_fut") =>
              /\ fut[task[t].waitOn].state = "done"
              /\ fut[task[t].waitOn].produced # NoEntry
              /\ fut[task[t].waitOn].value = fut[task[t].waitOn].produced
              /\ Returned(t)' => task'[t].parsed = fut[task[t].waitOn].produced]_vars

\* A coalesced caller has come back with a non-empty result.
C2_Witness ==
    \E t \in Tasks : Returned(t) /\ task[t].role = "waiter" /\ Truthy(task[t].parsed)

\* C3: no waiter is left unresolved.  Whenever tasks are suspended, a caller
\* awaiting a PendingRequest that is not resolved has an initiator still at
\* work for it, registered in the table, whose exit will resolve it: on every
\* way the initiator stops the PendingRequest is resolved before or when it is
\* unregistered.
C3_WaitersResolved ==
    \A t \in Tasks :
        (task[t].pc = "z_fut" /\ fut[task[t].waitOn].state = "pending") =>
            /\ Initiating(task[t].waitOn)
            /\ inflight[KeyOf(t)] = task[t].waitOn

\* C4: once a key has a CacheEntry the entry never changes or goes away, the
\* key has no PendingRequest and no initiator any more (so no permit is taken
\* and no chain started for it), and a resolve that begins then is a cache hit
\* returning the entry.
C4_PositiveCacheMonotone ==
    [][\A k \in Keys :
          cache[k] # NoEntry =>
              /\ cache'[k] = cache[k]
              /\ inflight'[k] = NoTask
              /\ {t \in Tasks : Initiating(t)' /\ KeyOf(t)' = k} = {}
              /\ \A t \in Tasks :
                    (task[t].pc = "n_wait" /\ Returned(t)' /\ KeyOf(t)' = k) =>
                        task'[t].role = "hit" /\ task'[t].parsed = cache[k]]_vars

\* A later resolve was served from the cache.
C4_Witness ==
    \E t \in Tasks : Returned(t) /\ task[t].role = "hit" /\ Truthy(task[t].parsed)

\* C5: every entry of the cache is a non-empty result.
C5_NoEmptyInCache == \A k \in Keys : cache[k] # NoEntry => Truthy(cache[k])

\* One key is cached while an initiator has come back empty for another
\* resolve.
C5_Witness ==
    /\ \E k \in Keys : cache[k] # NoEntry
    /\ \E t \in Tasks : Returned(t) /\ task[t].role = "initiator" /\ ~Truthy(task[t].parsed)

\* C6: whenever tasks are suspended, a key in the pending table has an
\* unresolved future whose initiator is still at work (resolving and removing
\* happen in one step); and a resolve that begins for a key with no CacheEntry
\* and no PendingRequest, as after an empty resolution, becomes the initiator
\* of a fresh invocation.
C6_PendingRemoved ==
    /\ [](\A k \in Keys :
             inflight[k] # NoTask =>
                 fut[inflight[k]].state = "pending" /\ inflight[k] \in Initiators(k))
    /\ [][\A t \in Tasks :
             /\ (Initiating(t) /\ ~Initiating(t)') =>
                   inflight'[KeyOf(t)] = NoTask /\ fut'[t].state # "pending"
             /\ (/\ task[t].pc = "n_wait"
                 /\ task'[t].pc \notin {"n_wait", "n_done"}
                 /\ ~Unresolvable(KeyOf(t)')
                 /\ cache[KeyOf(t)'] = NoEntry
                 /\ inflight[KeyOf(t)'] = NoTask) =>
                   task'[t].role = "initiator"]_vars

\* A key resolved empty for one caller and a second caller is the initiator of
\* a fresh invocation for it.
C6_Witness ==
    \E t1, t2 \in Tasks :
        /\ t1 # t2
        /\ Returned(t1) /\ task[t1].role = "initiator" /\ ~Truthy(task[t1].parsed)
        /\ InChain(t2) /\ KeyOf(t2) = KeyOf(t1)

\* Per-record operations of a stage of request b that are executing, suspended
\* or not.
RunningN(b) ==
    {t \in TasksOf(b) :
        task[t].pc \in {"z_fut", "z_sem", "z_primary", "z_sleep", "z_fallback", "n_llm"}}
RunningA(b) == {t \in TasksOf(b) : task[t].pc = "a_llm"}

\* At most C operations of each stage execute, and the permits account for them.
StageBound(b) ==
    /\ batch[b].phase = "normalize" =>
          /\ Cardinality(RunningN(b)) <= cfg.conc_n
          /\ batch[b].semN + Cardinality(RunningN(b)) = cfg.conc_n
    /\ batch[b].phase = "address" =>
          /\ Cardinality(RunningA(b)) <= cfg.conc_a
          /\ batch[b].semA + Cardinality(RunningA(b)) = cfg.conc_a

\* C7 as stated: the bound holds in both stages and, when the request is
\* done, each stage's operation has run exactly once for every record.
C7_ExactlyOncePerRecord ==
    \A b \in Batches :
        /\ StageBound(b)
        /\ batch[b].phase = "done" =>
              \A t \in TasksOf(b) : task[t].runs_n = 1 /\ task[t].runs_a = 1

\* C7, amended: the bound holds in both stages; no operation runs twice for a
\* record; normalize_customer has run exactly once per record when the
\* normalize stage is over; parse_address has run exactly once for each record
\* whose normalized form has an address or a cep, and not at all for the others.
C7_StageBound ==
    \A b \in Batches :
        /\ StageBound(b)
        /\ \A t \in TasksOf(b) :
              /\ task[t].runs_n <= 1 /\ task[t].runs_a <= 1
              /\ batch[b].phase \in {"address", "done"} => task[t].runs_n = 1
              /\ batch[b].phase = "done" =>
                    task[t].runs_a = IF batch[b].norm[t[2]].has_addr THEN 1 ELSE 0

\* The address stage runs as many operations as its bound allows while a
\* record with an address waits for a permit.
C7_Witness ==
    \E b \in Batches :
        /\ batch[b].phase = "address"
        /\ Cardinality(RunningA(b)) = cfg.conc_a
        /\ \E t \in TasksOf(b) : task[t].pc = "a_wait" /\ batch[b].norm[t[2]].has_addr

\* The Issues of request b for one stage and one position.
IssuesFor(b, stage, i) ==
    {j \in 1..Len(batch[b].issues) :
        batch[b].issues[j].stage = stage /\ batch[b].issues[j].idx = i}

\* C8: each gathered list has one slot per record; a filled slot holds the
\* value computed from the record at that position; a record whose operation
\* raised has the stage's default in its slot ({} for normalize, the unchanged
\* record for address) and exactly one Issue with the stage and its id; a
\* record whose operation did not raise has no Issue; and when the request is
\* done every slot is filled.
C8_IsolationAndOrder ==
    \A b \in Batches :
        batch[b].phase # "idle" =>
            /\ Len(batch[b].norm) = batch[b].n
            /\ Len(batch[b].out) = batch[b].n
            /\ \A t \in TasksOf(b) :
                  LET i == t[2]
                      nr == batch[b].norm[i]
                      ar == batch[b].out[i]
                  IN /\ nr.kind # "unset" => nr.src = i
                     /\ ar.kind # "unset" => ar.src = i
                     /\ Cardinality(IssuesFor(b, "normalize", i)) = IF task[t].raised_n THEN 1 ELSE 0
                     /\ Cardinality(IssuesFor(b, "address", i)) = IF task[t].raised_a THEN 1 ELSE 0
                     /\ \A j \in IssuesFor(b, "normalize", i) : batch[b].issues[j].id = IdOf(i)
                     /\ \A j \in IssuesFor(b, "address", i) : batch[b].issues[j].id = nr.id
                     /\ task[t].raised_n => nr = EmptyDict(i)
                     /\ task[t].raised_a => ar = nr
                     /\ batch[b].phase = "done" => nr.kind # "unset" /\ ar.kind # "unset"
            /\ Len(batch[b].issues) =
                  Cardinality({t \in TasksOf(b) : task[t].raised_n})
                  + Cardinality({t \in TasksOf(b) : task[t].raised_a})

\* A request is done in which the operation of the first record raised and
\* the second record, finished before it, carries a normal result.
C8_Witness ==
    \E b \in Batches :
        /\ batch[b].phase = "done"
        /\ batch[b].n >= 2
        /\ task[<<b, 1>>].raised_a
        /\ ~task[<<b, 2>>].raised_n /\ ~task[<<b, 2>>].raised_a
        /\ batch[b].out[2].addr = "out"
        /\ Len(batch[b].issues) = 1
\* Request b has finished both stages with a result for every record.
Completed(b) ==
    /\ batch[b].phase = "done"
    /\ Len(batch[b].out) = batch[b].n
    /\ \A i \in 1..batch[b].n : batch[b].out[i].kind # "unset"

\* C9: under fair scheduling and external calls that return, every submitted
\* request finishes both stages with one result per record; and no state with
\* a request in progress is a deadlock: some task or some gather can step.
C9_BatchCompletes ==
    /\ []((\E b \in Batches : batch[b].phase \in {"normalize", "address"}) => ENABLED Progress)
    /\ \A b \in Batches : (batch[b].phase # "idle") ~> Completed(b)

\* A task waits for a permit of the rate limiter while the task holding it
\* sleeps in a backoff.
C9_Witness ==
    \E t1, t2 \in Tasks : task[t1].pc = "z_sleep" /\ task[t2].pc = "z_sem"
\* The failures of a GET the claim calls RateLimited and Transient.
RateLimited(o) == o \in {"429_hint", "429_bad_hint", "429_no_hint"}
Transient(o) == o \in {"5xx", "connect_error", "read_timeout"}

IsGet(e) == e.kind = "get"

\* C10: in one Provider Chain invocation the primary is attempted at most 3
\* times, numbered 1, 2, 3; a RateLimited or Transient failure is followed by
\* a backoff wait and, on attempt n < 3, the wait by attempt n + 1; RateLimited
\* on attempts 1 and 2 and success on attempt 3 yields the successful result
\* after exactly 3 attempts; after 3 failed attempts the primary has yielded
\* empty (nothing is cached, the fallback is next for BR and the resolve is
\* over for any other country) and no exception has left the chain.
C10_BoundedRetry ==
    LET gets == SelectSeq(log, IsGet)
        n == Len(log)
        t == Observed
    IN /\ Len(gets) <= Retries
       /\ \A i \in 1..Len(gets) : gets[i].attempt = i
       /\ \A i \in 1..n :
             /\ IsGet(log[i]) = (i % 2 = 1)
             /\ ~IsGet(log[i]) =>
                   /\ log[i].attempt = log[i - 1].attempt
                   /\ RateLimited(log[i - 1].outcome) \/ Transient(log[i - 1].outcome)
       /\ (n > 0 /\ IsGet(log[n]) /\ (RateLimited(log[n].outcome) \/ Transient(log[n].outcome))) =>
             task[t].pc = "z_sleep" /\ task[t].attempt = log[n].attempt
       /\ (n > 0 /\ ~IsGet(log[n]) /\ log[n].attempt < Retries) =>
             task[t].pc = "z_primary" /\ task[t].attempt = log[n].attempt + 1
       /\ (/\ Len(gets) = Retries
           /\ RateLimited(gets[1].outcome) /\ RateLimited(gets[2].outcome)
           /\ gets[3].outcome = "found") =>
             /\ n = 2 * Retries - 1
             /\ cache[gets[3].codes] = ZipcodebaseResult(gets[3].codes, gets[3].country)
             /\ task[t].pc = "n_llm" /\ task[t].parsed = cache[gets[3].codes]
       /\ (n = 2 * Retries) =>
             /\ cache[log[n].codes] = NoEntry
             /\ IF log[n].country = "BR"
                THEN task[t].pc = "z_fallback"
                ELSE task[t].pc = "n_llm" /\ ~Truthy(task[t].parsed)
                     /\ inflight[log[n].codes] = NoTask
       /\ ~task[t].raised_n /\ batch[t[1]].issues = <<>>

\* The primary was RateLimited on attempts 1 and 2 and answered on attempt 3.
C10_Witness ==
    /\ Len(log) = 2 * Retries - 1
    /\ RateLimited(log[1].outcome) /\ RateLimited(log[3].outcome)
    /\ log[5].outcome = "found"

\* A GET the claim calls PermanentClient: a 4xx other than 429.
PermanentClient(o) == o = "4xx"

\* C11: a PermanentClient failure ends the retry loop at that attempt: it is
\* the last entry of the log (no further GET, no backoff sleep), the task has
\* left the loop and the primary has yielded empty (nothing cached; the
\* fallback next for BR, the resolve over with nothing attached otherwise).
\* On attempt 1 that is after exactly one GET.
C11_ShortCircuit ==
    \A i \in 1..Len(log) :
        (IsGet(log[i]) /\ PermanentClient(log[i].outcome)) =>
            /\ i = Len(log)
            /\ Len(SelectSeq(log, IsGet)) = log[i].attempt
            /\ task[Observed].pc \notin {"z_primary", "z_sleep"}
            /\ cache[log[i].codes] = NoEntry
            /\ IF log[i].country = "BR"
               THEN task[Observed].pc = "z_fallback"
               ELSE task[Observed].pc = "n_llm" /\ ~Truthy(task[Observed].parsed)

\* A permanent-client error on attempt 1.
C11_Witness ==
    Len(log) = 1 /\ PermanentClient(log[1].outcome) /\ task[Observed].pc # "z_primary"

IsFallback(e) == e.kind = "fallback"

\* The observed call entered a Provider Chain invocation: its key is
\* resolvable and was not in the cache (nothing is pending in ResolveSpec).
Entered == Len(log) > 0 /\ ~Unresolvable(log[1].codes) /\ log[1].before[log[1].codes] = NoEntry

\* The fallback of the observed invocation has been invoked.
FallbackInvoked == task[Observed].pc = "z_fallback" \/ SelectSeq(log, IsFallback) # <<>>

\* The primary of the observed invocation has returned an empty result.
PrimaryEmpty ==
    LET gets == SelectSeq(log, IsGet)
    IN /\ Entered /\ cfg.api_key /\ cfg.delay_ok
       /\ task[Observed].pc \notin {"z_primary", "z_sleep"}
       /\ gets[Len(gets)].outcome # "found"

\* What the observed invocation yields: the first non-empty result, else empty.
FirstNonEmpty ==
    LET gets == SelectSeq(log, IsGet)
        falls == SelectSeq(log, IsFallback)
    IN IF gets # <<>> /\ gets[Len(gets)].outcome = "found"
       THEN ZipcodebaseResult(log[1].codes, log[1].country)
       ELSE IF falls # <<>> /\ falls[1].outcome = "found"
       THEN ViaCepResult(log[1].codes)
       ELSE Empty

\* C12: in one Provider Chain invocation the fallback is invoked exactly when
\* the region is BR and the primary was skipped (no API key) or has returned
\* empty; it is invoked at most once, its response ends the invocation, and
\* the invocation yields the first non-empty result, else empty (a fallback
\* failure is empty), which is what the record gets and what is cached.
C12_FallbackGating ==
    LET falls == SelectSeq(log, IsFallback)
        t == Observed
    IN Len(log) > 0 =>
          /\ FallbackInvoked <=>
                (/\ Entered
                 /\ log[1].country = "BR"
                 /\ ~cfg.api_key \/ PrimaryEmpty)
          /\ Len(falls) <= 1
          /\ falls # <<>> => IsFallback(log[Len(log)]) /\ task[t].pc = "n_llm"
          /\ (Entered /\ task[t].pc = "n_llm") =>
                /\ task[t].parsed = FirstNonEmpty
                /\ cache[log[1].codes] = IF Truthy(FirstNonEmpty) THEN FirstNonEmpty ELSE NoEntry
                /\ inflight[log[1].codes] = NoTask
                /\ zsem = cfg.zip_conc

\* The retries of the primary were exhausted and the fallback answered.
C12_Witness ==
    LET falls == SelectSeq(log, IsFallback)
    IN /\ Len(SelectSeq(log, IsGet)) = Retries
       /\ falls # <<>> /\ falls[1].outcome = "found"
       /\ task[Observed].parsed = ViaCepResult(log[1].codes)

\* C13: whenever tasks are suspended, the permits of _SEM that are held are as
\* many as the initiators inside a Provider Chain invocation, over all keys
\* and requests, and never more than the cap; so a task served from the cache,
\* waiting on a PendingRequest or waiting for a permit holds none.
C13_RateLimiter ==
    LET held == cfg.zip_conc - zsem
    IN /\ zsem \in 0..cfg.zip_conc
       /\ held = Cardinality({t \in Tasks : InChain(t)})
       /\ held <= cfg.zip_conc

\* One initiator holds the only permit in use while a caller of another
\* request waits on its PendingRequest.
C13_Witness ==
    \E t1, t2 \in Tasks :
        /\ InChain(t1) /\ task[t2].pc = "z_fut" /\ task[t2].waitOn = t1
        /\ zsem = cfg.zip_conc - 1

\* ------------------------------------------------- the end-to-end scenario
\* A payload of SharedRecords records with one postal code and country, a
\* stage bound that admits them all, a primary that fails twice with a
\* Transient failure and then answers; and a later request with one more
\* record of that key.
ScenarioInit ==
    /\ cfg = [api_key |-> TRUE, delay_ok |-> TRUE, conc_n |-> SharedRecords,
              conc_a |-> SharedRecords, zip_conc |-> ZipMaxConcurrency]
    /\ cache = [k \in Keys |-> NoEntry]
    /\ inflight = [k \in Keys |-> NoTask]
    /\ fut = [t \in Tasks |-> NoFuture]
    /\ zsem = cfg.zip_conc
    /\ batch = [b \in Batches |->
                  IF b = 1
                  THEN [InitBatch EXCEPT !.phase = "normalize", !.n = SharedRecords,
                                         !.semN = cfg.conc_n,
                                         !.norm = [i \in 1..SharedRecords |-> Unset],
                                         !.out = [i \in 1..SharedRecords |-> Unset]]
                  ELSE InitBatch]
    /\ task = [t \in Tasks |->
                 IF t[1] = 1 /\ t[2] <= SharedRecords
                 THEN [InitTask EXCEPT !.pc = "n_wait"] ELSE InitTask]
    /\ log = <<>>

\* The GET of attempt n sent by task t.
SentBy(t, o) ==
    [kind |-> "get", attempt |-> task[t].attempt, outcome |-> o,
     codes |-> DigitsOf(task[t].rec), country |-> CountryOf(task[t].rec), by |-> t]

\* A task calls normalize_customer on a record of the shared key (the first
\* call is logged); the prompt is built without an error.
ScenarioEnter(t) ==
    /\ task[t].pc = "n_wait"
    /\ batch[t[1]].semN > 0
    /\ \E r \in {x \in Inputs : ~Unresolvable(DigitsOf(x))} :
          /\ log # <<>> => DigitsOf(r) = log[1].codes /\ CountryOf(r) = log[1].country
          /\ Commit([Enrich([World EXCEPT !.batch[t[1]].semN = @ - 1,
                                          !.task[t].rec = r,
                                          !.task[t].runs_n = @ + 1], t, FALSE)
                       EXCEPT !.log = IF @ = <<>> THEN <<Called(r, cache)>> ELSE @])

\* A coalesced caller resumes.
ScenarioResume(t) ==
    /\ task[t].pc = "z_fut"
    /\ fut[task[t].waitOn].state = "done"
    /\ Commit(AfterFuture(World, t, FALSE))

\* A GET ends: in a Transient failure on attempts 1 and 2, with a result on
\* attempt 3.
ScenarioGet(t) ==
    /\ task[t].pc = "z_primary"
    /\ \E o \in PrimaryOutcomes :
          /\ IF task[t].attempt < Retries THEN Transient(o) ELSE o = "found"
          /\ Commit([AfterGet(World, t, o, FALSE) EXCEPT !.log = Append(@, SentBy(t, o))])

\* A backoff sleep ends.
ScenarioSleep(t) ==
    /\ task[t].pc = "z_sleep"
    /\ Commit([AfterSleep(World, t, FALSE) EXCEPT !.log = Append(@, Waited(t))])

\* A later request with one record arrives once the records of the first
\* have all come back from the resolve.
ScenarioLater ==
    /\ batch[2].phase = "idle"
    /\ \A t \in TasksOf(1) : task[t].pc = "n_llm"
    /\ batch' = [batch EXCEPT ![2] = [@ EXCEPT !.phase = "normalize", !.n = 1,
                                               !.semN = cfg.conc_n,
                                               !.norm = <<Unset>>, !.out = <<Unset>>]]
    /\ task' = [task EXCEPT ![<<2, 1>>].pc = "n_wait"]
    /\ UNCHANGED <<cfg, cache, inflight, fut, zsem, log>>

ScenarioNext ==
    \/ ScenarioLater
    \/ \E t \in Tasks :
          \/ ScenarioEnter(t)
          \/ ScenarioResume(t)
          \/ ScenarioGet(t)
          \/ ScenarioSleep(t)

\* The scenario up to the return of every resolve.
ScenarioSpec == ScenarioInit /\ [][ScenarioNext]_vars

\* The result of the scenario's key.
SharedResult == ZipcodebaseResult(log[1].codes, log[1].country)

\* C14: in the scenario one task makes all the GETs, three of them, numbered
\* 1, 2, 3, and no fallback call is made; a record of the first request comes
\* back from the resolve only after the third GET and with its result; the
\* record of the later request is served from the cache, with the same
\* result, and no GET is added for it.
C14_EndToEnd ==
    LET gets == SelectSeq(log, IsGet)
    IN /\ Len(gets) <= Retries
       /\ \A i \in 1..Len(gets) : gets[i].attempt = i /\ gets[i].by = gets[1].by
       /\ \A t \in Tasks : task[t].pc # "z_fallback"
       /\ Cardinality({t \in Tasks : Initiating(t)}) <= 1
       /\ \A t \in Tasks :
             Returned(t) =>
                 /\ Len(gets) = Retries
                 /\ task[t].parsed = SharedResult
                 /\ cache[log[1].codes] = SharedResult
                 /\ t[1] = 2 => task[t].role = "hit"
       /\ batch[2].phase # "idle" => Len(gets) = Retries /\ gets[Retries].outcome = "found"

\* The records of the first request have all come back with the result,
\* and so has the record of the later request, from the cache.
C14_Witness ==
    /\ \A t \in TasksOf(1) : Returned(t) /\ task[t].parsed = SharedResult
    /\ Cardinality({t \in TasksOf(1) : task[t].role = "waiter"}) = SharedRecords - 1
    /\ Returned(<<2, 1>>) /\ task[<<2, 1>>].role = "hit"
    /\ Len(SelectSeq(log, IsGet)) = Retries

\* The raw cep has fewer than 5 digit characters (none when it is missing).
FewerThanFiveDigits(raw) == Cardinality({i \in 1..Len(raw) : raw[i] \in Digits}) < 5

\* C15: a resolve is a no-op exactly for a record whose raw cep has fewer than
\* 5 digits (a missing or empty cep included): it returns at once with the
\* record as it was called, nothing attached, the cache as it was before the
\* call, no PendingRequest, every permit of the Rate Limiter free and no
\* provider called.
C15_NonResolvable ==
    LET t == Observed
    IN Len(log) > 0 =>
          /\ (task[t].role = "skip") <=> FewerThanFiveDigits(log[1].rec.cep)
          /\ FewerThanFiveDigits(log[1].rec.cep) =>
                /\ Len(log) = 1
                /\ task[t].pc = "n_llm"
                /\ task[t].rec = log[1].rec /\ task[t].parsed = Empty
                /\ cache = log[1].before
                /\ inflight = [k \in Keys |-> NoTask]
                /\ fut = [f \in Tasks |-> NoFuture]
                /\ zsem = cfg.zip_conc

\* A cep of five characters and four digits was passed while the cache held
\* entries.
C15_Witness ==
    /\ Len(log) = 1 /\ log[1].rec.cep = CepShort
    /\ task[Observed].pc = "n_llm"
    /\ \E k \in Keys : cache[k] # NoEntry

\* The results a Provider Chain invocation for digits d and country c can
\* produce.
ProducedFor(d, c) ==
    {ZipcodebaseResult(d, c)} \cup (IF c = "BR" THEN {ViaCepResult(d)} ELSE {})

\* C16: the cache and the pending table are keyed by the digits of the postal
\* code together with the country, so whatever a record is given, from the
\* cache, from a coalesced PendingRequest or from its own invocation, is a
\* result an invocation for that record's own digits and country produces.
C16_LookupIdentity ==
    \A t \in Tasks :
        (Returned(t) /\ Truthy(task[t].parsed)) =>
            task[t].parsed \in ProducedFor(KeyOf(t), CountryOf(task[t].rec))

\* A GET that timed out: httpx.ReadTimeout, or ("other_timeout") one of
\* httpx.ConnectTimeout, WriteTimeout and PoolTimeout, which derive from
\* TimeoutException and are neither ConnectError nor ReadTimeout.
TimedOut(o) == o \in {"read_timeout", "other_timeout"}

\* C17: a GET that timed out on attempt n is followed by a backoff sleep (and
\* by attempt n + 1 when n < 3): as the last entry of the log it leaves the
\* task in the sleep, and it never ends the loop.
C17_TimeoutIsTransient ==
    \A i \in 1..Len(log) :
        (IsGet(log[i]) /\ TimedOut(log[i].outcome)) =>
            /\ i = Len(log) => task[Observed].pc = "z_sleep"
            /\ i < Len(log) => log[i + 1].kind = "slept"

\* ----------------------------------------------- the backoff of the loop
\* Time and delays are counted in tenths of a second.
Tenths == 10

\* random.uniform(0, 0.5): 0 <= jitter <= 0.5.
Jitters == {0, 2, Tenths \div 2}

\* float(os.getenv("ZIPCODEBASE_BASE_DELAY", "1.0")): the default, and half
\* a second.
BaseDelays == {Tenths, Tenths \div 2}

\* int(ra), in seconds, of a Retry-After header int() accepts.
Hints == {-1, 0, 2}
NoHint == -99

\* How long a GET can take, and how late after its deadline a sleep can end.
GetTimes == {1, 2}
Lateness == {0, 1}

\* A backoff that never reads Retry-After.
WaitWithoutHint(o, ra, base_delay, attempt, jitter) == base_delay * attempt + jitter

\* wait_s as the three sleeping branches compute it: int(ra) when the 429 has
\* a Retry-After that int() accepts, base_delay * attempt otherwise, plus the
\* jitter.
wait_s(o, ra, base_delay, attempt, jitter) ==
    (IF o = "429_hint" THEN ra * Tenths ELSE base_delay * attempt) + jitter

\* asyncio.sleep(d) returns at its deadline or later; at once when d <= 0.
SleepEnds(since, d) == {since + (IF d > 0 THEN d ELSE 0) + l : l \in Lateness}

\* The observed invocation when _zipcodebase_lookup has read base_delay and
\* is about to send attempt 1: the state ChainInit describes, at time 0.
BackoffInit ==
    /\ cfg \in {c \in Configs : c.api_key /\ c.delay_ok}
    /\ inflight = [k \in Keys |-> IF k = _norm_cep(CepFormatted) THEN Observed ELSE NoTask]
    /\ task = [t \in Tasks |->
                 IF t = Observed
                 THEN [InitTask EXCEPT !.pc = "z_primary",
                                       !.rec = [cep |-> CepFormatted, country_code |-> ""],
                                       !.attempt = 1, !.role = "initiator", !.runs_n = 1]
                 ELSE InitTask]
    /\ cache = [k \in Keys |-> NoEntry]
    /\ fut = [t \in Tasks |->
                IF t = Observed
                THEN [state |-> "pending", value |-> Empty, produced |-> NoEntry]
                ELSE NoFuture]
    /\ zsem = cfg.zip_conc - 1
    /\ batch = [b \in Batches |->
                  IF b = Observed[1]
                  THEN [InitBatch EXCEPT !.phase = "normalize", !.n = 1,
                                         !.semN = cfg.conc_n - 1,
                                         !.norm = <<Unset>>, !.out = <<Unset>>]
                  ELSE InitBatch]
    /\ \E b \in BaseDelays : log = <<[kind |-> "start", base_delay |-> b, at |-> 0]>>

\* The GET of attempt n: sent at start, back at at with outcome o; ra is the
\* Retry-After of a 429 that has a usable one.
Timed(t, o, ra, d) ==
    [kind |-> "get", attempt |-> task[t].attempt, outcome |-> o, ra |-> ra,
     start |-> log[Len(log)].at, at |-> log[Len(log)].at + d]

\* The sleep after attempt n: asyncio.sleep(wait) called at since, back at at.
Backoff(t, jitter, at) ==
    LET g == log[Len(log)]
    IN [kind |-> "slept", attempt |-> task[t].attempt, jitter |-> jitter,
        wait |-> wait_s(g.outcome, g.ra, log[1].base_delay, g.attempt, jitter),
        since |-> g.at, at |-> at]

\* One GET of the observed loop ends in o after d.
BackoffGet(o, d) ==
    /\ task[Observed].pc = "z_primary"
    /\ \E ra \in (IF o = "429_hint" THEN Hints ELSE {NoHint}) :
          Commit([AfterGet(World, Observed, o, FALSE) EXCEPT
                     !.log = Append(@, Timed(Observed, o, ra, d))])

\* The observed loop draws its jitter and sleeps.
BackoffSleep(jitter) ==
    /\ task[Observed].pc = "z_sleep"
    /\ LET g == log[Len(log)]
           w == wait_s(g.outcome, g.ra, log[1].base_delay, g.attempt, jitter)
       IN \E at \in SleepEnds(g.at, w) :
             Commit([AfterSleep(World, Observed, FALSE) EXCEPT
                        !.log = Append(@, Backoff(Observed, jitter, at))])

BackoffNext ==
    \/ \E o \in PrimaryOutcomes, d \in GetTimes : BackoffGet(o, d)
    \/ \E jitter \in Jitters : BackoffSleep(jitter)

\* One primary lookup with its clock.
BackoffSpec == BackoffInit /\ [][BackoffNext]_vars

\* The 429 carried a hint the loop can use.
Hinted(g) == g.outcome = "429_hint"

\* C18: the wait after failed attempt n is the hint plus jitter for a
\* RateLimited response with a usable hint, and base_delay * n plus jitter
\* for RateLimited without one and for Transient, with 0 <= jitter <= 0.5;
\* the sleep does not end, and the next attempt is not sent, before the wait
\* has elapsed.
C18_BackoffAmount ==
    \A i \in 2..Len(log) :
        log[i].kind = "slept" =>
            LET g == log[i - 1]
                e == log[i]
            IN /\ g.kind = "get" /\ e.attempt = g.attempt
               /\ RateLimited(g.outcome) \/ Transient(g.outcome)
               /\ e.jitter >= 0 /\ 2 * e.jitter <= Tenths
               /\ e.wait = (IF Hinted(g) THEN g.ra * Tenths
                            ELSE log[1].base_delay * g.attempt) + e.jitter
               /\ e.since = g.at
               /\ e.at >= e.since + e.wait
               /\ i < Len(log) =>
                     /\ log[i + 1].kind = "get"
                     /\ log[i + 1].attempt = g.attempt + 1
                     /\ log[i + 1].start >= g.at + e.wait

\* A hinted wait, then a computed wait, then the third attempt.
C18_Witness ==
    /\ Len(log) = 2 * Retries
    /\ Hinted(log[2]) /\ log[2].ra > 0
    /\ log[3].wait = log[2].ra * Tenths + log[3].jitter /\ log[3].jitter > 0
    /\ Transient(log[4].outcome)
    /\ log[5].wait = 2 * log[1].base_delay + log[5].jitter
    /\ log[6].kind = "get" /\ log[6].attempt = Retries

\* ------------------------------------------------- the stages of a batch
\* The stages process() calls itself, once the two gathers are over.
Computational == {"dedupe_candidates", "pick_golden", "harmonize", "enrich"}

\* How many times request b has started stage s.
Times(b, s) == Cardinality({i \in 1..Len(batch[b].stages) : batch[b].stages[i] = s})

\* The address operation of task t has started / the normalize operation of
\* task t has finished.
AddressStarted(t) == task[t].runs_a > 0 \/ task[t].pc \in {"a_llm", "a_done"}
NormalizeFinished(t) == task[t].runs_n = 1 /\ task[t].pc \in {"n_done", "a_wait", "a_llm", "a_done"}

\* C19: in one batch no address operation has started while a normalize
\* operation is unfinished, and each of dedupe_candidates, pick_golden,
\* harmonize and enrich is called at most once, and only when every address
\* operation of the batch has finished.
C19_StageBarriers ==
    \A b \in Batches :
        /\ (\E t \in TasksOf(b) : AddressStarted(t)) =>
              \A u \in TasksOf(b) : NormalizeFinished(u)
        /\ \A s \in Computational : Times(b, s) <= 1
        /\ (\E s \in Computational : Times(b, s) > 0) =>
              \A t \in TasksOf(b) : task[t].pc = "a_done"

\* A batch of two records, one of them parsed, after all four stages ran.
C19_Witness ==
    \E b \in Batches :
        /\ batch[b].n = 2 /\ batch[b].phase = "done"
        /\ \E t \in TasksOf(b) : task[t].runs_a = 1
        /\ \A s \in Computational \ {"enrich"} : Times(b, s) = 1

\* The operations a stage serves, read generously: the address stage serves
\* any operation, and pick_golden "dedupe" as well as "consolidate".
Serves(s) ==
    CASE s = "normalize" -> {"normalize"}
      [] s = "address" -> {"normalize", "validate", "dedupe", "consolidate", "harmonize",
                           "enrich", "mask", "outlier_check"}
      [] s = "dedupe_candidates" -> {"dedupe"}
      [] s = "pick_golden" -> {"consolidate", "dedupe"}
      [] s = "harmonize" -> {"harmonize"}
      [] s = "enrich" -> {"enrich"}

\* C20: every stage a batch has started serves an operation the batch asked
\* for.
C20_StageSelection ==
    \A b \in Batches :
        \A i \in 1..Len(batch[b].stages) :
            Serves(batch[b].stages[i]) \cap batch[b].operations # {}

\* ------------------------------------ cancellation among coalesced callers
\* While the first request of the scenario is at work, a second request
\* arrives with one record.
CoalesceLater ==
    /\ batch[2].phase = "idle"
    /\ batch' = [batch EXCEPT ![2] = [@ EXCEPT !.phase = "normalize", !.n = 1,
                                               !.semN = cfg.conc_n,
                                               !.norm = <<Unset>>, !.out = <<Unset>>]]
    /\ task' = [task EXCEPT ![<<2, 1>>].pc = "n_wait"]
    /\ UNCHANGED <<cfg, cache, inflight, fut, zsem, log>>

\* A task calls normalize_customer on a record of the shared postal code.
CoalesceEnter(t) ==
    /\ task[t].pc = "n_wait"
    /\ Live(t)
    /\ batch[t[1]].semN > 0
    /\ \E r \in {x \in Inputs : DigitsOf(x) = _norm_cep(CepFormatted)}, fail \in BOOLEAN :
          Commit(Enrich([World EXCEPT !.batch[t[1]].semN = @ - 1,
                                      !.task[t].rec = r,
                                      !.task[t].runs_n = @ + 1], t, fail))

\* With one key there is one initiator at a time, and it never waits for
\* its permit of _SEM.
CoalesceNext ==
    \/ CoalesceLater
    \/ \E b \in Batches : Cancel(b)
    \/ \E t \in Tasks :
          \/ CoalesceEnter(t)
          \/ FutResume(t)
          \/ \E o \in PrimaryOutcomes : PrimaryResponse(t, o)
          \/ SleepDone(t)
          \/ FallbackResponse(t)
          \/ Unwind(t)

\* The callers of one key in two requests, either of which can be cancelled.
CoalesceSpec == ScenarioInit /\ [][CoalesceNext]_vars

\* C21: a caller whose own request was not cancelled is not cancelled, is not
\* left awaiting a PendingRequest that no initiator will resolve, and is the
\* only initiator of its key, whatever cancellation reached the other callers
\* of the key.
C21_CancellationIsolation ==
    \A t \in Tasks :
        Live(t) =>
            /\ task[t].pc # "cancelled"
            /\ (task[t].pc = "z_fut" /\ fut[task[t].waitOn].state = "pending") =>
                  Initiating(task[t].waitOn) /\ Live(task[t].waitOn)
            /\ Initiating(t) =>
                  \A u \in Tasks \ {t} :
                      (Live(u) /\ Initiating(u)) => KeyOf(u) # KeyOf(t)
====
